---------------------------- MODULE Spec2Model ----------------------------
(***************************************************************************)
(* A model of clockbot.py, a Zulip bot that records clock-in / clock-out  *)
(* events in a Supabase table and reconciles them into hour totals.        *)
(*                                                                         *)
(* Strings the bot parses (message contents, tokens, mentions) are         *)
(* sequences of one-character strings, so that split(), lower(), lstrip(), *)
(* rstrip(), startswith(), int() and the mention regex are computed as the *)
(* code computes them.  Instants are whole hours counted from              *)
(* 2024-01-01T00:00:00Z, which is a Monday; the minute, second and         *)
(* microsecond fields, which the code always zeroes together with the      *)
(* hour, are not represented; a difference of two instants is therefore a  *)
(* whole number of hours and total_seconds() / 3600 is exact.              *)
(*                                                                         *)
(* The table is the sequence of its rows in insertion order.  A query      *)
(* carries no order clause and returns the matching rows in that order,    *)
(* each as the pair (ev, ts) that lines 56 and 178 destructure.  The wall  *)
(* clock never goes back.  The text fmt_multi renders is kept as the       *)
(* instant it renders.                                                     *)
(***************************************************************************)
EXTENDS Integers, Sequences, FiniteSets, TLC

VARIABLES
    now,        \* the UTC wall clock read by datetime.now(ZoneInfo("UTC"))
    store,      \* the clock_entries table: rows in insertion order
    reply,      \* what the last handle_message call sent with send_reply
    queries,    \* the get_user_sessions calls of the last handle_message call
    since       \* the local `since` of the last generate_stats / report call

vars == <<now, store, reply, queries, since>>

-----------------------------------------------------------------------------
(* Optional values: Python's None and a present value.                     *)
None == <<>>
Some(x) == <<x>>
IsSome(o) == o # <<>>
Val(o) == o[1]

-----------------------------------------------------------------------------
(* String helpers (str methods used by handle_message and strip_mention).  *)

UpperChars == <<"A","B","C","D","E","F","G","H","I","J","K","L","M",
                "N","O","P","Q","R","S","T","U","V","W","X","Y","Z">>
LowerChars == <<"a","b","c","d","e","f","g","h","i","j","k","l","m",
                "n","o","p","q","r","s","t","u","v","w","x","y","z">>

LowerChar(c) ==
    IF \E i \in 1..26 : UpperChars[i] = c
    THEN LowerChars[CHOOSE i \in 1..26 : UpperChars[i] = c]
    ELSE c

UpperChar(c) ==
    IF \E i \in 1..26 : LowerChars[i] = c
    THEN UpperChars[CHOOSE i \in 1..26 : LowerChars[i] = c]
    ELSE c

\* str.lower()
Lower(s) == [i \in 1..Len(s) |-> LowerChar(s[i])]

\* str.upper()
Upper(s) == [i \in 1..Len(s) |-> UpperChar(s[i])]

\* str.title() of a token: a letter that follows a non-letter is upper-cased,
\* every other letter is lower-cased.
IsLetter(c) == \E i \in 1..26 : UpperChars[i] = c \/ LowerChars[i] = c
Title(s) ==
    [i \in 1..Len(s) |->
        IF i = 1 \/ ~IsLetter(s[i-1]) THEN UpperChar(s[i]) ELSE LowerChar(s[i])]

\* str.startswith(p)
StartsWith(s, p) == Len(s) >= Len(p) /\ SubSeq(s, 1, Len(p)) = p

\* str.split(): the maximal runs of non-space characters, in order
RECURSIVE SplitFrom(_, _, _, _)
SplitFrom(s, i, cur, acc) ==
    IF i > Len(s)
    THEN IF cur = <<>> THEN acc ELSE Append(acc, cur)
    ELSE IF s[i] = " "
         THEN SplitFrom(s, i + 1, <<>>, IF cur = <<>> THEN acc ELSE Append(acc, cur))
         ELSE SplitFrom(s, i + 1, Append(cur, s[i]), acc)
Split(s) == SplitFrom(s, 1, <<>>, <<>>)

\* str.strip(): drop leading and trailing spaces
RECURSIVE LStrip(_, _)
LStrip(s, chars) ==
    IF s # <<>> /\ s[1] \in chars THEN LStrip(Tail(s), chars) ELSE s
RECURSIVE RStrip(_, _)
RStrip(s, chars) ==
    IF s # <<>> /\ s[Len(s)] \in chars THEN RStrip(SubSeq(s, 1, Len(s) - 1), chars) ELSE s
Strip(s) == RStrip(LStrip(s, {" "}), {" "})

\* str.split("|", 1)[0]: the part before the first "|"
RECURSIVE BeforeBar(_)
BeforeBar(s) ==
    IF s = <<>> \/ s[1] = "|" THEN <<>> ELSE <<s[1]>> \o BeforeBar(Tail(s))

\* re.search(r"@\*\*(.*?)\*\*", text): group(0) of the leftmost match, the
\* shortest one at that place; None when there is no match.
MentionAt(s, i, j) ==
    /\ i + 2 <= Len(s) /\ SubSeq(s, i, i + 2) = <<"@", "*", "*">>
    /\ j >= i + 3 /\ j + 1 <= Len(s) /\ SubSeq(s, j, j + 1) = <<"*", "*">>
MentionSearch(s) ==
    LET starts == {i \in 1..Len(s) : \E j \in 1..Len(s) : MentionAt(s, i, j)}
    IN  IF starts = {} THEN None
        ELSE LET i == CHOOSE a \in starts : \A b \in starts : a <= b
                 ends == {j \in 1..Len(s) : MentionAt(s, i, j)}
                 j == CHOOSE a \in ends : \A b \in ends : a <= b
             IN  Some(SubSeq(s, i, j + 1))

\* strip_mention(token)
strip_mention(token) ==
    BeforeBar(RStrip(LStrip(token, {"@", "*", "<"}), {"*", ">"}))

\* int(token): an optional sign and one or more decimal digits; None stands
\* for ValueError.
Digits == <<"0","1","2","3","4","5","6","7","8","9">>
IsDigit(c) == \E i \in 1..10 : Digits[i] = c
DigitVal(c) == (CHOOSE i \in 1..10 : Digits[i] = c) - 1
RECURSIVE DigitsVal(_, _)
DigitsVal(s, acc) ==
    IF s = <<>> THEN acc ELSE DigitsVal(Tail(s), 10 * acc + DigitVal(s[1]))
ParseInt(s) ==
    LET body == IF s # <<>> /\ s[1] \in {"+", "-"} THEN Tail(s) ELSE s
    IN  IF body = <<>> \/ \E i \in 1..Len(body) : ~IsDigit(body[i])
        THEN None
        ELSE Some(IF s[1] = "-" THEN 0 - DigitsVal(body, 0) ELSE DigitsVal(body, 0))

-----------------------------------------------------------------------------
(* datetime: an instant is a whole number of hours since                   *)
(* 2024-01-01T00:00:00+00:00 (a Monday); a datetime value is the civil     *)
(* record [year, month, day, hour] of that instant in UTC.                 *)

IsLeap(y) == (y % 4 = 0 /\ y % 100 # 0) \/ y % 400 = 0
DaysInYear(y) == IF IsLeap(y) THEN 366 ELSE 365
DaysInMonth(y, m) ==
    IF m = 2 THEN (IF IsLeap(y) THEN 29 ELSE 28)
    ELSE IF m \in {4, 6, 9, 11} THEN 30 ELSE 31

\* the day number of January 1 of year y (day 0 is 2024-01-01)
RECURSIVE YearStart(_)
YearStart(y) ==
    IF y = 2024 THEN 0
    ELSE IF y > 2024 THEN YearStart(y - 1) + DaysInYear(y - 1)
    ELSE YearStart(y + 1) - DaysInYear(y)

RECURSIVE YearFrom(_, _)
YearFrom(d, y) ==
    IF d < YearStart(y) THEN YearFrom(d, y - 1)
    ELSE IF d >= YearStart(y + 1) THEN YearFrom(d, y + 1)
    ELSE y

RECURSIVE MonthFrom(_, _, _)
MonthFrom(rest, y, m) ==
    IF rest >= DaysInMonth(y, m) THEN MonthFrom(rest - DaysInMonth(y, m), y, m + 1)
    ELSE [month |-> m, day |-> rest + 1]

RECURSIVE DaysBeforeMonth(_, _)
DaysBeforeMonth(y, m) ==
    IF m = 1 THEN 0 ELSE DaysBeforeMonth(y, m - 1) + DaysInMonth(y, m - 1)

\* the datetime of an instant
ToDateTime(t) ==
    LET d  == t \div 24
        y  == YearFrom(d, 2024)
        md == MonthFrom(d - YearStart(y), y, 1)
    IN  [year |-> y, month |-> md.month, day |-> md.day, hour |-> t % 24]

\* the instant of a datetime
ToInstant(dt) ==
    (YearStart(dt.year) + DaysBeforeMonth(dt.year, dt.month) + (dt.day - 1)) * 24 + dt.hour

\* datetime.isoformat() and datetime.fromisoformat(): the text
\* YYYY-MM-DDTHH:00:00+00:00 is kept as its four numeric fields.
isoformat(t) == ToDateTime(t)
fromisoformat(iso) == ToInstant(iso)

\* datetime.weekday(): Monday is 0
weekday(t) == (t \div 24) % 7

\* datetime.date() of an instant
DateOf(t) == [year |-> ToDateTime(t).year, month |-> ToDateTime(t).month,
              day |-> ToDateTime(t).day]

\* now - timedelta(days = n)
MinusDays(t, n) == t - 24 * n

-----------------------------------------------------------------------------
(* The words of the command language, the users and the messages.          *)

s_in     == <<"i","n">>
s_out    == <<"o","u","t">>
s_clock  == <<"c","l","o","c","k">>
s_stats  == <<"s","t","a","t","s">>
s_report == <<"r","e","p","o","r","t">>
s_help   == <<"h","e","l","p">>
s_day    == <<"d","a","y">>
s_week   == <<"w","e","e","k">>
s_month  == <<"m","o","n","t","h">>
s_year   == <<"y","e","a","r">>
s_all    == <<"a","l","l">>
s_alltime == <<"A","l","l"," ","t","i","m","e">>
Periods  == {s_day, s_week, s_month, s_year, s_all}

\* two Zulip users: their display names and their e-mail addresses
AlName  == <<"A","l">>
AlEmail == <<"a","l","@","x">>
BoName  == <<"B","o">>
BoEmail == <<"b","o","@","x">>
Al == [sender_full_name |-> AlName, sender_email |-> AlEmail]
Bo == [sender_full_name |-> BoName, sender_email |-> BoEmail]
Users == {Al, Bo}

\* every user an admin
ADMINS_everyone == {AlEmail, BoEmail}

\* bot_config.ADMINS
ADMINS == {AlEmail}

Sp == <<" ">>
Mention(x) == <<"@","*","*">> \o x \o <<"*","*">>

\* a Zulip message as handle_message receives it
Message(c, u) ==
    [content |-> c, sender_full_name |-> u.sender_full_name,
     sender_email |-> u.sender_email]

ClockContents ==
    { s_in, s_out, s_clock \o Sp \o s_in, s_clock \o Sp \o s_out }

StatsContents ==
    { s_stats,
      s_stats \o Sp \o s_all,
      s_stats \o Sp \o <<"f","o","o">> }

ReportContents ==
    { s_report \o Sp \o Mention(AlName) \o Sp \o s_all,
      s_report \o Sp \o Mention(AlEmail) \o Sp \o s_all,
      s_report \o Sp \o Mention(AlEmail) \o Sp \o s_day,
      s_report \o Sp \o Mention(AlEmail) \o Sp \o <<"1">> \o Sp \o s_week,
      s_report \o Sp \o Mention(AlEmail) \o Sp \o <<"0">> \o Sp \o <<"w","e","e","k","s">>,
      s_report \o Sp \o Mention(AlName \o <<"|","7">>) \o Sp \o <<"2">> \o Sp \o <<"M","o","n","t","h","s">>,
      s_report \o Sp \o Mention(AlEmail) \o Sp \o <<"x">> \o Sp \o <<"w","e","e","k","s">>,
      s_report \o Sp \o Mention(AlEmail) \o Sp \o <<"1">> \o Sp \o <<"d","a","y","s">>,
      s_report \o Sp \o AlName \o Sp \o s_all }

OtherContents ==
    { s_in \o Sp \o s_in, s_out \o Sp \o s_out,
      Sp \o <<"C","l","o","c","k">> \o Sp \o Sp \o <<"I","N">> \o Sp,
      s_help, <<"h","i">>, Sp }

\* the messages the two users send: Al, an admin, sends every content; Bo
\* clocks in and asks for a report
Messages ==
    {Message(c, Al) :
        c \in ClockContents \cup StatsContents \cup ReportContents \cup OtherContents}
    \cup
    {Message(c, Bo) :
        c \in {s_clock \o Sp \o s_in,
               s_report \o Sp \o Mention(AlEmail) \o Sp \o s_all}}

\* stats requests for every period keyword
WindowMessages ==
    {Message(s_stats \o Sp \o p, Al) : p \in Periods \ {s_year}}
    \cup {Message(s_stats, Bo), Message(s_stats \o Sp \o <<"Y","e","a","r">>, Bo)}

-----------------------------------------------------------------------------
(* The Supabase helpers.  A row of clock_entries is                        *)
(* [user_email, action, timestamp]; the reconciliation loops destructure   *)
(* each row a query returns as the pair (ev, ts).                          *)

\* get_all_users(): the distinct user_email values, in order of first insertion
RECURSIVE Distinct(_, _)
Distinct(rows, seen) ==
    IF rows = <<>> THEN <<>>
    ELSE IF Head(rows).user_email \in seen THEN Distinct(Tail(rows), seen)
    ELSE <<Head(rows).user_email>> \o
         Distinct(Tail(rows), seen \cup {Head(rows).user_email})
get_all_users(rows) == Distinct(rows, {})

\* get_user_sessions(user, since): .eq('user_email', user), and
\* .gte('timestamp', since) when since is given
\* the query without the .gte('timestamp', since) filter
RowMatches_nofilter(row, user, snc) == row.user_email = user

RowMatches(row, user, snc) ==
    /\ row.user_email = user
    /\ IsSome(snc) => fromisoformat(row.timestamp) >= fromisoformat(Val(snc))
RECURSIVE SelectRows(_, _, _)
SelectRows(rows, user, snc) ==
    IF rows = <<>> THEN <<>>
    ELSE (IF RowMatches(Head(rows), user, snc)
          THEN << <<Head(rows).action, Head(rows).timestamp>> >> ELSE <<>>)
         \o SelectRows(Tail(rows), user, snc)
get_user_sessions(rows, user, snc) == SelectRows(rows, user, snc)

\* an insert that keeps only the newest row of each user
log_event_latest(rows, user, event, t) ==
    Append(SelectSeq(rows, LAMBDA r : r.user_email # user),
           [user_email |-> user, action |-> event, timestamp |-> isoformat(t)])

\* the row log_event(user, event) inserts when the clock reads t
log_event(rows, user, event, t) ==
    Append(rows, [user_email |-> user, action |-> event, timestamp |-> isoformat(t)])

-----------------------------------------------------------------------------
(* generate_stats(period, target_user)                                     *)

\* the window with the week counted from Sunday (isoweekday() for weekday())
StatsSince_sunday(period, t) ==
    LET dt == ToDateTime(t) IN
    IF period = s_day THEN Some(ToInstant([dt EXCEPT !.hour = 0]))
    ELSE IF period = s_week
    THEN Some(ToInstant([ToDateTime(MinusDays(t, weekday(t) + 1)) EXCEPT !.hour = 0]))
    ELSE IF period = s_month THEN Some(ToInstant([dt EXCEPT !.day = 1, !.hour = 0]))
    ELSE IF period = s_year
    THEN Some(ToInstant([dt EXCEPT !.month = 1, !.day = 1, !.hour = 0]))
    ELSE None

\* the window with "all" falling into the branch of "day"
StatsSince_allday(period, t) ==
    LET dt == ToDateTime(t) IN
    IF period = s_week
    THEN Some(ToInstant([ToDateTime(MinusDays(t, weekday(t))) EXCEPT !.hour = 0]))
    ELSE IF period = s_month THEN Some(ToInstant([dt EXCEPT !.day = 1, !.hour = 0]))
    ELSE IF period = s_year
    THEN Some(ToInstant([dt EXCEPT !.month = 1, !.day = 1, !.hour = 0]))
    ELSE Some(ToInstant([dt EXCEPT !.hour = 0]))

\* lines 39-48: the lower bound of the window of a period keyword
StatsSince(period, t) ==
    LET dt == ToDateTime(t) IN
    IF period = s_day THEN Some(ToInstant([dt EXCEPT !.hour = 0]))
    ELSE IF period = s_week
    THEN Some(ToInstant([ToDateTime(MinusDays(t, weekday(t))) EXCEPT !.hour = 0]))
    ELSE IF period = s_month THEN Some(ToInstant([dt EXCEPT !.day = 1, !.hour = 0]))
    ELSE IF period = s_year
    THEN Some(ToInstant([dt EXCEPT !.month = 1, !.day = 1, !.hour = 0]))
    ELSE None

\* since.isoformat() if since else None
SinceArg(snc) == IF IsSome(snc) THEN Some(isoformat(Val(snc))) ELSE None

\* the loop with "total =" for "total +=" on line 61
RECURSIVE StatsLoop_assign(_, _, _)
StatsLoop_assign(events, total, last) ==
    IF events = <<>> THEN total
    ELSE LET ev  == Head(events)[1]
             tdt == fromisoformat(Head(events)[2])
         IN  IF ev = s_in THEN StatsLoop_assign(Tail(events), total, Some(tdt))
             ELSE IF ev = s_out /\ IsSome(last)
             THEN StatsLoop_assign(Tail(events), tdt - Val(last), None)
             ELSE StatsLoop_assign(Tail(events), total, last)

\* the loop with the operands of the subtraction on line 61 exchanged
RECURSIVE StatsLoop_swapped(_, _, _)
StatsLoop_swapped(events, total, last) ==
    IF events = <<>> THEN total
    ELSE LET ev  == Head(events)[1]
             tdt == fromisoformat(Head(events)[2])
         IN  IF ev = s_in THEN StatsLoop_swapped(Tail(events), total, Some(tdt))
             ELSE IF ev = s_out /\ IsSome(last)
             THEN StatsLoop_swapped(Tail(events), total + (Val(last) - tdt), None)
             ELSE StatsLoop_swapped(Tail(events), total, last)

\* the loop with an In that does not replace an In that is still open
RECURSIVE StatsLoop_firstopen(_, _, _)
StatsLoop_firstopen(events, total, last) ==
    IF events = <<>> THEN total
    ELSE LET ev  == Head(events)[1]
             tdt == fromisoformat(Head(events)[2])
         IN  IF ev = s_in
             THEN StatsLoop_firstopen(Tail(events), total,
                                      IF IsSome(last) THEN last ELSE Some(tdt))
             ELSE IF ev = s_out /\ IsSome(last)
             THEN StatsLoop_firstopen(Tail(events), total + (tdt - Val(last)), None)
             ELSE StatsLoop_firstopen(Tail(events), total, last)

\* the loop without "last = None" on line 62
RECURSIVE StatsLoop_noclear(_, _, _)
StatsLoop_noclear(events, total, last) ==
    IF events = <<>> THEN total
    ELSE LET ev  == Head(events)[1]
             tdt == fromisoformat(Head(events)[2])
         IN  IF ev = s_in THEN StatsLoop_noclear(Tail(events), total, Some(tdt))
             ELSE IF ev = s_out /\ IsSome(last)
             THEN StatsLoop_noclear(Tail(events), total + (tdt - Val(last)), last)
             ELSE StatsLoop_noclear(Tail(events), total, last)

\* lines 55-62: the reconciliation loop of one user; total is in hours
RECURSIVE StatsLoop(_, _, _)
StatsLoop(events, total, last) ==
    IF events = <<>> THEN total
    ELSE LET ev  == Head(events)[1]
             tdt == fromisoformat(Head(events)[2])
         IN  IF ev = s_in THEN StatsLoop(Tail(events), total, Some(tdt))
             ELSE IF ev = s_out /\ IsSome(last)
             THEN StatsLoop(Tail(events), total + (tdt - Val(last)), None)
             ELSE StatsLoop(Tail(events), total, last)

\* line 50: the users in scope
StatsUsers(rows, target_user) ==
    IF IsSome(target_user) /\ Val(target_user) # <<>>
    THEN <<Val(target_user)>> ELSE get_all_users(rows)

\* line 51
StatsTitle(period) == IF period # s_all THEN Title(period) ELSE s_alltime

\* generate_stats counting a session that is still open up to the clock reading
OpenHours(events, t) ==
    IF events # <<>> /\ events[Len(events)][1] = s_in
    THEN t - fromisoformat(events[Len(events)][2]) ELSE 0
generate_stats_open(rows, period, target_user, t) ==
    LET snc   == StatsSince(period, t)
        users == StatsUsers(rows, target_user)
    IN  [kind  |-> "stats",
         title |-> StatsTitle(period),
         lines |-> [i \in 1..Len(users) |->
                      [user  |-> users[i],
                       total |-> StatsLoop(get_user_sessions(rows, users[i], SinceArg(snc)),
                                           0, None)
                                 + OpenHours(get_user_sessions(rows, users[i], SinceArg(snc)), t)]]]

\* the text generate_stats returns: the title line and one line per user
generate_stats(rows, period, target_user, t) ==
    LET snc   == StatsSince(period, t)
        users == StatsUsers(rows, target_user)
    IN  [kind  |-> "stats",
         title |-> StatsTitle(period),
         lines |-> [i \in 1..Len(users) |->
                      [user  |-> users[i],
                       total |-> StatsLoop(get_user_sessions(rows, users[i], SinceArg(snc)),
                                           0, None)]]]

\* the get_user_sessions calls generate_stats makes
StatsQueries(rows, period, target_user, t) ==
    LET users == StatsUsers(rows, target_user)
    IN  [i \in 1..Len(users) |->
            [user |-> users[i], since |-> SinceArg(StatsSince(period, t))]]

-----------------------------------------------------------------------------
(* The relative report of handle_message, lines 158-187.                   *)

\* the relative window with a month of 31 days
RelativeSince_month31(parts, t) ==
    IF Len(parts) < 2 THEN None
    ELSE LET n    == ParseInt(parts[Len(parts) - 1])
             unit == Lower(parts[Len(parts)])
         IN  IF ~IsSome(n) THEN None
             ELSE IF StartsWith(unit, s_week)  THEN Some(MinusDays(t, 7 * Val(n)))
             ELSE IF StartsWith(unit, s_month) THEN Some(MinusDays(t, 31 * Val(n)))
             ELSE IF StartsWith(unit, s_year)  THEN Some(MinusDays(t, 365 * Val(n)))
             ELSE None

\* lines 159-169: None stands for the exception the except clause catches
RelativeSince(parts, t) ==
    IF Len(parts) < 2 THEN None
    ELSE LET n    == ParseInt(parts[Len(parts) - 1])
             unit == Lower(parts[Len(parts)])
         IN  IF ~IsSome(n) THEN None
             ELSE IF StartsWith(unit, s_week)  THEN Some(MinusDays(t, 7 * Val(n)))
             ELSE IF StartsWith(unit, s_month) THEN Some(MinusDays(t, 30 * Val(n)))
             ELSE IF StartsWith(unit, s_year)  THEN Some(MinusDays(t, 365 * Val(n)))
             ELSE None

\* format spec ":5s": left-justified in at least five characters
RECURSIVE Pad5(_)
Pad5(x) == IF Len(x) >= 5 THEN x ELSE Pad5(x \o <<" ">>)

\* the loop with a narrative line only for the events that enter the total
RECURSIVE ReportLoop_counted(_, _, _, _)
ReportLoop_counted(events, total, last_in, lines) ==
    IF events = <<>> THEN [total |-> total, lines |-> lines]
    ELSE LET ev  == Head(events)[1]
             tdt == fromisoformat(Head(events)[2])
             ls  == Append(lines, [action |-> Pad5(Upper(ev)), at |-> tdt])
         IN  IF ev = s_in THEN ReportLoop_counted(Tail(events), total, Some(tdt), ls)
             ELSE IF ev = s_out /\ IsSome(last_in)
             THEN ReportLoop_counted(Tail(events), total + (tdt - Val(last_in)), None, ls)
             ELSE ReportLoop_counted(Tail(events), total, last_in, lines)

\* lines 177-185: the reconciliation loop with one narrative line per event
RECURSIVE ReportLoop(_, _, _, _)
ReportLoop(events, total, last_in, lines) ==
    IF events = <<>> THEN [total |-> total, lines |-> lines]
    ELSE LET ev  == Head(events)[1]
             tdt == fromisoformat(Head(events)[2])
             ls  == Append(lines, [action |-> Pad5(Upper(ev)), at |-> tdt])
         IN  IF ev = s_in THEN ReportLoop(Tail(events), total, Some(tdt), ls)
             ELSE IF ev = s_out /\ IsSome(last_in)
             THEN ReportLoop(Tail(events), total + (tdt - Val(last_in)), None, ls)
             ELSE ReportLoop(Tail(events), total, last_in, ls)

\* lines 176-187: the text of the relative report
relative_report(rows, user, snc) ==
    LET r == ReportLoop(get_user_sessions(rows, user, Some(isoformat(snc))), 0, None, <<>>)
    IN  [kind  |-> "report",
         user  |-> user,
         date  |-> DateOf(snc),
         lines |-> r.lines,
         total |-> r.total]

-----------------------------------------------------------------------------
(* Bounds of the model: MaxEvents rows may be inserted and the clock may   *)
(* advance MaxElapsed hours past ClockStart; a drawn log has at most       *)
(* MaxLog rows, stamped within MaxSpan hours of ClockStart; a drawn clock  *)
(* reading lies within MaxWindowHours hours of 2024-01-01T00:00Z.          *)

MaxEvents == 3
MaxElapsed == 1
MaxLog == 4
MaxSpan == 2
MaxWindowHours == 400

\* the instant the clock shows first
ClockStart == ToInstant([year |-> 2024, month |-> 3, day |-> 14, hour |-> 23])
ClockEnd   == ClockStart + MaxElapsed

-----------------------------------------------------------------------------
(* handle_message                                                          *)

\* lines 100-101, 104 and 142: what handle_message first computes from the content
\* kept with the message, so that each is computed once per message
Parse(m) ==
    LET text  == Strip(m.content)
        parts == Split(text)
    IN  [content          |-> m.content,
         sender_full_name |-> m.sender_full_name,
         sender_email     |-> m.sender_email,
         parts            |-> parts,
         lower            |-> [i \in 1..Len(parts) |-> Lower(parts[i])],
         mention          |-> MentionSearch(text)]
Received == {Parse(m) : m \in Messages}
WindowReceived == {Parse(m) : m \in WindowMessages}

Parts(m) == m.parts
Cmd(m)   == m.lower[1]

\* line 108 and line 117
IsClockIn(m) ==
    /\ Cmd(m) \in {s_in, s_clock}
    /\ Len(Parts(m)) > 1 /\ m.lower[2] = s_in
IsClockOut(m) ==
    /\ Cmd(m) \in {s_out, s_clock}
    /\ Len(Parts(m)) > 1 /\ m.lower[2] = s_out

NoReply == [kind |-> "none"]

\* lines 102-103: an empty message is dropped without a reply
Empty(m) ==
    /\ Parts(m) = <<>>
    /\ reply' = NoReply
    /\ queries' = <<>> /\ since' = None
    /\ UNCHANGED <<now, store>>

\* a later datetime.now() of the same call: the clock may have advanced
LaterReads == {t \in {now, now + 1} : t <= ClockEnd}

\* lines 108-115; log_event reads the clock again after line 109 has
ClockIn(m) ==
    /\ Parts(m) # <<>> /\ IsClockIn(m)
    /\ Len(store) < MaxEvents
    /\ \E t2 \in LaterReads :
          /\ store' = log_event(store, m.sender_email, s_in, t2)
          /\ now' = t2
    /\ reply' = [kind |-> "clock_in", name |-> m.sender_full_name, at |-> now]
    /\ queries' = <<>> /\ since' = None

\* lines 117-124
ClockOut(m) ==
    /\ Parts(m) # <<>> /\ ~IsClockIn(m) /\ IsClockOut(m)
    /\ Len(store) < MaxEvents
    /\ \E t2 \in LaterReads :
          /\ store' = log_event(store, m.sender_email, s_out, t2)
          /\ now' = t2
    /\ reply' = [kind |-> "clock_out", name |-> m.sender_full_name, at |-> now]
    /\ queries' = <<>> /\ since' = None

IsOther(m) == Parts(m) # <<>> /\ ~IsClockIn(m) /\ ~IsClockOut(m)

\* line 127
StatsPeriod(m) == IF Len(Parts(m)) > 1 THEN m.lower[2] ELSE s_day

\* lines 126-132: an unknown period keyword
StatsInvalid(m) ==
    /\ IsOther(m) /\ Cmd(m) = s_stats
    /\ StatsPeriod(m) \notin Periods
    /\ reply' = [kind |-> "invalid_period"]
    /\ queries' = <<>> /\ since' = None
    /\ UNCHANGED <<now, store>>

\* lines 126-134: team stats
Stats(m) ==
    /\ IsOther(m) /\ Cmd(m) = s_stats
    /\ StatsPeriod(m) \in Periods
    /\ reply' = generate_stats(store, StatsPeriod(m), None, now)
    /\ queries' = StatsQueries(store, StatsPeriod(m), None, now)
    /\ since' = StatsSince(StatsPeriod(m), now)
    /\ UNCHANGED <<now, store>>

IsReport(m) == IsOther(m) /\ Cmd(m) = s_report

\* lines 136-141
ReportUnauthorized(m) ==
    /\ IsReport(m)
    /\ m.sender_email \notin ADMINS
    /\ reply' = [kind |-> "not_authorized"]
    /\ queries' = <<>> /\ since' = None
    /\ UNCHANGED <<now, store>>

\* line 142
ReportMention(m) == m.mention

\* lines 142-147
ReportNoMention(m) ==
    /\ IsReport(m)
    /\ m.sender_email \in ADMINS
    /\ ~IsSome(ReportMention(m))
    /\ reply' = [kind |-> "usage_report"]
    /\ queries' = <<>> /\ since' = None
    /\ UNCHANGED <<now, store>>

\* lines 148-149
ReportUser(m) == strip_mention(Val(ReportMention(m)))
ReportLast(m) == m.lower[Len(Parts(m))]
IsAdminReport(m) ==
    IsReport(m) /\ m.sender_email \in ADMINS /\ IsSome(ReportMention(m))

\* lines 151-156: a period keyword as the last token
ReportPeriod(m) ==
    /\ IsAdminReport(m)
    /\ ReportLast(m) \in Periods
    /\ reply' = generate_stats(store, ReportLast(m), Some(ReportUser(m)), now)
    /\ queries' = StatsQueries(store, ReportLast(m), Some(ReportUser(m)), now)
    /\ since' = StatsSince(ReportLast(m), now)
    /\ UNCHANGED <<now, store>>

\* lines 158-174: the count or the unit does not parse
ReportUsage(m) ==
    /\ IsAdminReport(m)
    /\ ReportLast(m) \notin Periods
    /\ ~IsSome(RelativeSince(Parts(m), now))
    /\ reply' = [kind |-> "usage_relative"]
    /\ queries' = <<>> /\ since' = None
    /\ UNCHANGED <<now, store>>

\* lines 158-188: the relative report
ReportRelative(m) ==
    /\ IsAdminReport(m)
    /\ ReportLast(m) \notin Periods
    /\ IsSome(RelativeSince(Parts(m), now))
    /\ LET snc == Val(RelativeSince(Parts(m), now)) IN
          /\ reply' = relative_report(store, ReportUser(m), snc)
          /\ queries' = << [user |-> ReportUser(m), since |-> Some(isoformat(snc))] >>
          /\ since' = Some(snc)
    /\ UNCHANGED <<now, store>>

\* lines 190-191
Help(m) ==
    /\ IsOther(m) /\ Cmd(m) \notin {s_stats, s_report}
    /\ Cmd(m) = s_help
    /\ reply' = [kind |-> "usage"]
    /\ queries' = <<>> /\ since' = None
    /\ UNCHANGED <<now, store>>

\* line 193
Unknown(m) ==
    /\ IsOther(m) /\ Cmd(m) \notin {s_stats, s_report, s_help}
    /\ reply' = [kind |-> "unknown"]
    /\ queries' = <<>> /\ since' = None
    /\ UNCHANGED <<now, store>>

handle_message(m) ==
    \/ Empty(m)
    \/ ClockIn(m)
    \/ ClockOut(m)
    \/ StatsInvalid(m)
    \/ Stats(m)
    \/ ReportUnauthorized(m)
    \/ ReportNoMention(m)
    \/ ReportPeriod(m)
    \/ ReportUsage(m)
    \/ ReportRelative(m)
    \/ Help(m)
    \/ Unknown(m)

\* time passes between two messages
Tick ==
    /\ now < ClockEnd
    /\ now' = now + 1
    /\ UNCHANGED <<store, reply, queries, since>>

Init ==
    /\ now = ClockStart
    /\ store = <<>>
    /\ reply = NoReply
    /\ queries = <<>>
    /\ since = None

Next == Tick \/ \E m \in Received : handle_message(m)

Spec == Init /\ [][Next]_vars

-----------------------------------------------------------------------------
(* Reports over a drawn log: the table starts as any log of Al's events    *)
(* that clock commands can have written (timestamps never decrease), and   *)
(* the admin asks for stats and reports.                                   *)

LogRows ==
    {[user_email |-> AlEmail, action |-> a, timestamp |-> isoformat(t)] :
        a \in {s_in, s_out}, t \in ClockStart..(ClockStart + MaxSpan)}
Logs ==
    UNION {{l \in [1..k -> LogRows] :
              \A i \in 1..(k - 1) :
                 fromisoformat(l[i].timestamp) <= fromisoformat(l[i + 1].timestamp)} :
           k \in 0..MaxLog}

ReconcileMessages ==
    {Message(c, Al) :
        c \in { s_stats, s_stats \o Sp \o s_all,
                s_report \o Sp \o Mention(AlEmail) \o Sp \o s_all,
                s_report \o Sp \o Mention(AlEmail) \o Sp \o <<"1">> \o Sp \o <<"w","e","e","k","s">>,
                s_report \o Sp \o Mention(AlEmail) \o Sp \o <<"0">> \o Sp \o <<"w","e","e","k","s">> }}
ReconcileReceived == {Parse(m) : m \in ReconcileMessages}

InitReconcile ==
    /\ now = ClockStart + MaxSpan
    /\ store \in Logs
    /\ reply = NoReply
    /\ queries = <<>>
    /\ since = None

NextReconcile ==
    \E m \in ReconcileReceived : Stats(m) \/ ReportPeriod(m) \/ ReportRelative(m)

SpecReconcile == InitReconcile /\ [][NextReconcile]_vars

-----------------------------------------------------------------------------
(* Window resolution over a drawn clock reading: stats requests for every  *)
(* period keyword at any hour around 2024-01-01.                           *)

InitWindow ==
    /\ now \in (0 - MaxWindowHours)..MaxWindowHours
    /\ store = <<>>
    /\ reply = NoReply
    /\ queries = <<>>
    /\ since = None

NextWindow == \E m \in WindowReceived : Stats(m)

SpecWindow == InitWindow /\ [][NextWindow]_vars

-----------------------------------------------------------------------------
(* Reference notions the properties are stated with.                       *)

\* the instant of an event (ev, ts)
Inst(e) == ToInstant(e[2])

\* the elements of a set of naturals in increasing order
RECURSIVE Ascending(_)
Ascending(S) ==
    IF S = {} THEN <<>>
    ELSE LET a == CHOOSE x \in S : \A y \in S : x <= y
         IN  <<a>> \o Ascending(S \ {a})

\* the events of a user in a window, in the order of the table: those rows of
\* the user whose instant is not before the lower bound, if there is one
RefEvents(rows, user, snc) ==
    LET idx == Ascending({i \in 1..Len(rows) :
                            /\ rows[i].user_email = user
                            /\ IsSome(snc) => ToInstant(rows[i].timestamp) >= Val(snc)})
    IN  [k \in 1..Len(idx) |-> <<rows[idx[k]].action, rows[idx[k]].timestamp>>]

\* the (user, total) pairs the last reply reports
ReportedTotals ==
    IF reply.kind = "stats"
    THEN {[user |-> reply.lines[i].user, total |-> reply.lines[i].total] :
             i \in 1..Len(reply.lines)}
    ELSE IF reply.kind = "report"
    THEN {[user |-> reply.user, total |-> reply.total]}
    ELSE {}

\* the events the last reply's total of a user was reconciled from
Reconciled(user) == RefEvents(store, user, since)

\* In, Out, In, Out, ...: starts with In, ends with Out
IsAlternating(evs) ==
    /\ Len(evs) > 0 /\ Len(evs) % 2 = 0
    /\ \A i \in 1..Len(evs) : evs[i][1] = (IF i % 2 = 1 THEN s_in ELSE s_out)

IsSorted(evs) == \A i \in 1..(Len(evs) - 1) : Inst(evs[i]) <= Inst(evs[i + 1])

\* the sum of out - in over the pairs (1,2), (3,4), ... in hours
RECURSIVE PairSum(_)
PairSum(evs) ==
    IF Len(evs) < 2 THEN 0
    ELSE (Inst(evs[2]) - Inst(evs[1])) + PairSum(SubSeq(evs, 3, Len(evs)))

\* the sum of out - in over every Out that directly follows an In
RECURSIVE AdjacentSum(_, _)
AdjacentSum(evs, j) ==
    IF j > Len(evs) THEN 0
    ELSE (IF evs[j][1] = s_out /\ evs[j - 1][1] = s_in
          THEN Inst(evs[j]) - Inst(evs[j - 1]) ELSE 0) + AdjacentSum(evs, j + 1)

\* the running total of the reply's loop after the first j events
Running(evs, j) ==
    IF reply.kind = "report"
    THEN ReportLoop(SubSeq(evs, 1, j), 0, None, <<>>).total
    ELSE StatsLoop(SubSeq(evs, 1, j), 0, None)

-----------------------------------------------------------------------------
HasRepeatedIn(evs) ==
    \E i \in 1..(Len(evs) - 1) : evs[i][1] = s_in /\ evs[i + 1][1] = s_in
IsDanglingOut(evs, j) ==
    evs[j][1] = s_out /\ (j = 1 \/ evs[j - 1][1] = s_out)
ExampleOpenLog ==
    << [user_email |-> AlEmail, action |-> s_in,  timestamp |-> isoformat(ClockStart)],
       [user_email |-> AlEmail, action |-> s_out, timestamp |-> isoformat(ClockStart + 1)],
       [user_email |-> AlEmail, action |-> s_in,  timestamp |-> isoformat(ClockStart + 2)] >>
NamesUser(m, u) ==
    IsSome(m.mention) /\ Val(m.mention) = Mention(u.sender_full_name)
HasClocked(u) ==
    \E i, j \in 1..Len(store) :
        /\ i < j
        /\ store[i].user_email = u.sender_email /\ store[i].action = s_in
        /\ store[j].user_email = u.sender_email /\ store[j].action = s_out
C2_SameIdentityKey ==
    [][\A m \in Received : \A u \in Users :
          (HasClocked(u) /\ NamesUser(m, u) /\ (ReportPeriod(m) \/ ReportRelative(m)))
              => /\ Len(queries') > 0
                 /\ \A i \in 1..Len(queries') : queries'[i].user = u.sender_email]_vars

\* C3: each of "in" and "clock in" appends exactly one In event of the sender
\* and is answered with the CLOCK IN confirmation; each of "out" and
\* "clock out" appends exactly one Out event of the sender and is answered
\* with the CLOCK OUT confirmation.
AppendsOne(m, action) ==
    /\ Len(store') = Len(store) + 1
    /\ SubSeq(store', 1, Len(store)) = store
    /\ store'[Len(store')].user_email = m.sender_email
    /\ store'[Len(store')].action = action
C3_ClockCommands ==
    [][\A m \in Received :
          handle_message(m) =>
             /\ m.content \in {s_in, s_clock \o Sp \o s_in}
                   => (AppendsOne(m, s_in) /\ reply'.kind = "clock_in"
                       /\ reply'.name = m.sender_full_name)
             /\ m.content \in {s_out, s_clock \o Sp \o s_out}
                   => (AppendsOne(m, s_out) /\ reply'.kind = "clock_out"
                       /\ reply'.name = m.sender_full_name)]_vars

\* C8: a report with a lower bound since reconciles exactly the user's events
\* with timestamp >= since, so a session whose In lies before since and whose
\* Out lies at or after it contributes zero; period day at 2024-03-15T10:00Z
\* with In at 2024-03-14T23:00Z and Out at 2024-03-15T01:00Z gives total 0.
ExampleStraddleLog ==
    << [user_email |-> AlEmail, action |-> s_in,
        timestamp |-> [year |-> 2024, month |-> 3, day |-> 14, hour |-> 23]],
       [user_email |-> AlEmail, action |-> s_out,
        timestamp |-> [year |-> 2024, month |-> 3, day |-> 15, hour |-> 1]] >>
IsStraddle(evs, snc) ==
    /\ Len(evs) = 2
    /\ evs[1][1] = s_in /\ Inst(evs[1]) < snc
    /\ evs[2][1] = s_out /\ Inst(evs[2]) >= snc
C9_WeekStartsMonday ==
    (reply.kind = "stats" /\ reply.title = <<"W","e","e","k">>) =>
        /\ IsSome(since)
        /\ Val(since) % 24 = 0
        /\ (Val(since) \div 24) % 7 = 0
        /\ Val(since) <= now
        /\ now - Val(since) < 7 * 24

C9_Witness ==
    /\ reply.kind = "stats" /\ reply.title = <<"W","e","e","k">>
    /\ now < 0
    /\ now - Val(since) = 7 * 24 - 1

\* C10: for period all the window has no lower bound and the store is queried
\* unfiltered: every event recorded for a user is in that user's
\* reconciliation.
RowsOf(user) == {k \in 1..Len(store) : store[k].user_email = user}
C10_AllIsUnfiltered ==
    (reply.kind = "stats" /\ reply.title = s_alltime) =>
        /\ since = None
        /\ \A i \in 1..Len(queries) :
              /\ queries[i].since = None
              /\ Len(get_user_sessions(store, queries[i].user, queries[i].since))
                    = Cardinality(RowsOf(queries[i].user))
        /\ \A r \in ReportedTotals :
              r.total = AdjacentSum(RefEvents(store, r.user, None), 2)

C10_Witness ==
    /\ reply.kind = "stats" /\ reply.title = s_alltime
    /\ Len(reply.lines) = 2
    /\ Len(store) = MaxEvents
    /\ \E k \in 1..Len(store) : ToInstant(store[k].timestamp) < (now \div 24) * 24
    /\ \E r \in ReportedTotals : r.total > 0

-----------------------------------------------------------------------------
(* Command dispatch over a drawn table: the table starts as a prefix of a  *)
(* log that clock commands can have written, and the two users send every  *)
(* kind of command, among them reports whose last two tokens are drawn     *)
(* from count and unit tokens.                                             *)

\* count tokens, with the integer each denotes if it denotes one
CountTokens ==
    { [tok |-> <<"2">>,         isInt |-> TRUE,  n |-> 2],
      [tok |-> <<"1">>,         isInt |-> TRUE,  n |-> 1],
      [tok |-> <<"0">>,         isInt |-> TRUE,  n |-> 0],
      [tok |-> <<"-","1">>,     isInt |-> TRUE,  n |-> 0 - 1],
      [tok |-> <<"x">>,         isInt |-> FALSE, n |-> 0],
      [tok |-> <<"1",".","5">>, isInt |-> FALSE, n |-> 0] }

\* unit tokens, with the days of one unit (0: not a unit) and whether the
\* token is the plural the usage text names
UnitTokens ==
    { [tok |-> <<"w","e","e","k","s">>,     days |-> 7,   plural |-> TRUE],
      [tok |-> s_week,                      days |-> 7,   plural |-> FALSE],
      [tok |-> <<"M","o","n","t","h","s">>, days |-> 30,  plural |-> TRUE],
      [tok |-> s_month,                     days |-> 30,  plural |-> FALSE],
      [tok |-> <<"y","e","a","r","s">>,     days |-> 365, plural |-> TRUE],
      [tok |-> s_year,                      days |-> 365, plural |-> FALSE],
      [tok |-> <<"d","a","y","s">>,         days |-> 0,   plural |-> FALSE] }

\* the admin's reports "report @**al@x** <count> <unit>"
RelativeRequests ==
    {[count |-> c, unit |-> u,
      m |-> Parse(Message(s_report \o Sp \o Mention(AlEmail) \o Sp \o c.tok \o Sp \o u.tok,
                          Al))] :
        c \in CountTokens, u \in UnitTokens}

CommandMessages ==
    {Message(c, Al) :
        c \in { s_stats, s_stats \o Sp \o s_all, s_stats \o Sp \o s_week,
                s_stats \o Sp \o <<"f","o","o">>,
                s_report \o Sp \o Mention(AlName) \o Sp \o s_all,
                s_report \o Sp \o Mention(AlEmail) \o Sp \o s_day,
                s_report \o Sp \o Mention(AlEmail) \o Sp \o <<"f","o","o">>,
                s_report \o Sp \o Mention(AlEmail),
                s_report \o Sp \o AlEmail \o Sp \o <<"2">> \o Sp \o <<"w","e","e","k","s">>,
                s_report }}
    \cup
    {Message(c, Bo) :
        c \in { s_stats \o Sp \o s_all,
                s_stats \o Sp \o <<"2">> \o Sp \o <<"w","e","e","k","s">>,
                s_report \o Sp \o Mention(AlEmail) \o Sp \o s_all,
                s_report \o Sp \o Mention(BoEmail) \o Sp \o <<"2">> \o Sp \o <<"w","e","e","k","s">>,
                s_report \o Sp \o Mention(BoEmail) \o Sp \o <<"x">> \o Sp \o <<"d","a","y","s">>,
                s_report \o Sp \o BoName \o Sp \o s_day,
                s_report }}
CommandReceived ==
    {Parse(m) : m \in CommandMessages} \cup {r.m : r \in RelativeRequests}

\* a log of three rows written before ClockStart
SampleLog ==
    << [user_email |-> AlEmail, action |-> s_in,  timestamp |-> isoformat(ClockStart - 2)],
       [user_email |-> AlEmail, action |-> s_out, timestamp |-> isoformat(ClockStart - 1)],
       [user_email |-> BoEmail, action |-> s_in,  timestamp |-> isoformat(ClockStart)] >>

InitCommands ==
    /\ now \in ClockStart..ClockEnd
    /\ store \in {SubSeq(SampleLog, i, j) : i, j \in 1..Len(SampleLog)}
    /\ reply = NoReply
    /\ queries = <<>>
    /\ since = None

NextCommands ==
    \E m \in CommandReceived :
        \/ StatsInvalid(m)
        \/ Stats(m)
        \/ ReportUnauthorized(m)
        \/ ReportNoMention(m)
        \/ ReportPeriod(m)
        \/ ReportUsage(m)
        \/ ReportRelative(m)

SpecCommands == InitCommands /\ [][NextCommands]_vars

\* C11: for a relative report with integer count N and unit weeks, months or
\* years, the lower bound of the window is exactly now - 7 N days,
\* now - 30 N days or now - 365 N days; 2 months is now - 60 days.
C11_RelativeWindow ==
    [][\A r \in RelativeRequests :
          (r.count.isInt /\ r.unit.plural /\ handle_message(r.m))
              => /\ reply'.kind = "report"
                 /\ since' = Some(now - 24 * r.unit.days * r.count.n)
                 /\ reply'.date = DateOf(now - 24 * r.unit.days * r.count.n)
                 /\ queries' = << [user |-> AlEmail,
                                   since |-> Some(isoformat(now - 24 * r.unit.days * r.count.n))] >>]_vars

C11_Witness ==
    /\ reply.kind = "report"
    /\ reply.user = AlEmail
    /\ since = Some(now - 24 * 60)
    /\ reply.date = [year |-> 2024, month |-> 1, day |-> 14]
    /\ Len(reply.lines) = 2

-----------------------------------------------------------------------------
(* Repeated team stats: the clock starts an hour before ClockStart, so that *)
(* a session can be closed before midnight and stats asked on both sides   *)
(* of it.                                                                  *)

IdemMessages ==
    {Message(c, Al) :
        c \in { s_clock \o Sp \o s_in, s_clock \o Sp \o s_out,
                s_stats, s_stats \o Sp \o s_week, s_stats \o Sp \o s_all }}
    \cup {Message(s_clock \o Sp \o s_in, Bo)}
IdemReceived == {Parse(m) : m \in IdemMessages}

InitIdem ==
    /\ now = ClockStart - 1
    /\ store = <<>>
    /\ reply = NoReply
    /\ queries = <<>>
    /\ since = None

NextIdem ==
    \/ Tick
    \/ \E m \in IdemReceived : ClockIn(m) \/ ClockOut(m) \/ Stats(m)

SpecIdem == InitIdem /\ [][NextIdem]_vars

\* the reply showing is a team-stats reply for the period m asks for; a clock
\* command or another period in between would have replaced it
RepeatsStats(m) ==
    /\ reply.kind = "stats"
    /\ reply.title = StatsTitle(StatsPeriod(m))

-----------------------------------------------------------------------------
\* the report commands of Bo, who is not an admin
BoReports ==
    {m \in CommandReceived :
        /\ m.sender_email = BoEmail
        /\ m.parts # <<>>
        /\ Lower(m.parts[1]) = s_report}

\* C13: a report command sent by a non-admin always yields the
\* not-authorized reply and performs no store query and no store write; the
\* reply holds no totals or events of any user.
C13_NonAdminRefused ==
    [][\A m \in BoReports :
          handle_message(m)
              => /\ reply' = [kind |-> "not_authorized"]
                 /\ queries' = <<>>
                 /\ store' = store]_vars

\* the refusal is showing while the table holds events of both users
C13_Witness ==
    /\ reply = [kind |-> "not_authorized"]
    /\ queries = <<>>
    /\ get_all_users(store) = <<AlEmail, BoEmail>>

-----------------------------------------------------------------------------
\* the stats commands whose period token is no period keyword
BadPeriodStats ==
    {m \in CommandReceived :
        /\ Len(m.parts) > 1
        /\ Lower(m.parts[1]) = s_stats
        /\ Lower(m.parts[2]) \notin Periods}

\* the admin's reports whose count is no integer or whose unit is no unit
BadRelativeRequests ==
    {r \in RelativeRequests : ~r.count.isInt \/ r.unit.days = 0}

\* the replies that tell the sender the command was not carried out
ErrorKinds == {"invalid_period", "usage_report", "usage_relative"}

\* C14: an unrecognized period keyword in a stats command, and a non-integer
\* count or an unrecognized unit in a relative report command, each yield an
\* error or usage reply; no totals are reported and the store is neither
\* queried nor modified.
C14_BadRequestRefused ==
    [][/\ \A m \in BadPeriodStats :
            handle_message(m)
                => /\ reply'.kind \in ErrorKinds
                   /\ DOMAIN reply' = {"kind"}
                   /\ queries' = <<>>
                   /\ store' = store
       /\ \A r \in BadRelativeRequests :
            handle_message(r.m)
                => /\ reply'.kind \in ErrorKinds
                   /\ DOMAIN reply' = {"kind"}
                   /\ queries' = <<>>
                   /\ store' = store]_vars

-----------------------------------------------------------------------------
\* one narrative line per event, in the order of the events
NarrativeOf(evs) ==
    [k \in 1..Len(evs) |->
        [action |-> IF evs[k][1] = s_in THEN <<"I","N"," "," "," ">>
                    ELSE <<"O","U","T"," "," ">>,
         at     |-> Inst(evs[k])]]

\* r is a detailed report on user: the narrative of evs, then one Total line
IsDetailed(r, user, evs) ==
    /\ r.kind = "report"
    /\ DOMAIN r = {"kind", "user", "date", "lines", "total"}
    /\ r.user = user
    /\ r.lines = NarrativeOf(evs)

\* r is the stats text for user alone: a title and one totals line
IsUserTotals(r, user) ==
    /\ r.kind = "stats"
    /\ DOMAIN r = {"kind", "title", "lines"}
    /\ Len(r.lines) = 1
    /\ r.lines[1].user = user

-----------------------------------------------------------------------------
\* the messages handled as clock-in or clock-out, and the other messages
ClockCommands == {m \in Received : m.parts # <<>> /\ (IsClockIn(m) \/ IsClockOut(m))}
OtherCommands == Received \ ClockCommands

\* C16: the store is append-only under every command: stats, report, help
\* and unknown commands leave it unchanged, and a clock-in or clock-out
\* appends exactly one event of the sender and leaves every previously
\* recorded event unchanged.
C16_AppendOnly ==
    [][/\ \A m \in ClockCommands :
            handle_message(m)
                => AppendsOne(m, IF reply'.kind = "clock_in" THEN s_in ELSE s_out)
       /\ store' # store => \A m \in OtherCommands : ~handle_message(m)]_vars

\* three events are recorded, the last one an Out of a user whose In is
\* still the first row
C16_Witness ==
    /\ Len(store) = 3
    /\ reply.kind = "clock_out"
    /\ store[1].action = s_in
    /\ store[3].action = s_out
    /\ store[3].user_email = store[1].user_email

-----------------------------------------------------------------------------
\* C17: for every accepted report whose window has a lower bound,
\* since <= now; a relative report is accepted only with a positive count.
C17_WindowNotInFuture ==
    [][/\ IsSome(since') => Val(since') <= now'
       /\ \A r \in RelativeRequests :
            ReportRelative(r.m) => (r.count.isInt /\ r.count.n > 0)]_vars

-----------------------------------------------------------------------------
(* A store whose queries can fail: execute() raises, and neither           *)
(* generate_stats nor the report loop nor handle_message catches it, so    *)
(* the call ends with the exception and no reply is sent.                  *)

\* the call raised; nothing was sent
Raised == [kind |-> "exception"]

\* the queries made up to and including the failing one: the listing of the
\* users (lines 20, 50) when none is given, or one of the calls of line 56
RaisingQueries(rows, period, target_user, t) ==
    LET qs    == StatsQueries(rows, period, target_user, t)
        first == IF IsSome(target_user) /\ Val(target_user) # <<>> THEN 1 ELSE 0
    IN  {SubSeq(qs, 1, k) : k \in first..Len(qs)}

\* lines 126-133 with a failing query in generate_stats
StatsStoreError(m) ==
    /\ IsOther(m) /\ Cmd(m) = s_stats
    /\ StatsPeriod(m) \in Periods
    /\ queries' \in RaisingQueries(store, StatsPeriod(m), None, now)
    /\ reply' = Raised
    /\ since' = StatsSince(StatsPeriod(m), now)
    /\ UNCHANGED <<now, store>>

\* lines 151-155 with a failing query in generate_stats
ReportPeriodStoreError(m) ==
    /\ IsAdminReport(m)
    /\ ReportLast(m) \in Periods
    /\ queries' \in RaisingQueries(store, ReportLast(m), Some(ReportUser(m)), now)
    /\ reply' = Raised
    /\ since' = StatsSince(ReportLast(m), now)
    /\ UNCHANGED <<now, store>>

\* lines 158-178 with a failing query at line 178
ReportRelativeStoreError(m) ==
    /\ IsAdminReport(m)
    /\ ReportLast(m) \notin Periods
    /\ IsSome(RelativeSince(Parts(m), now))
    /\ LET snc == Val(RelativeSince(Parts(m), now)) IN
          /\ queries' = << [user |-> ReportUser(m), since |-> Some(isoformat(snc))] >>
          /\ since' = Some(snc)
    /\ reply' = Raised
    /\ UNCHANGED <<now, store>>

FaultyMessages ==
    {Message(c, Al) :
        c \in { s_stats, s_stats \o Sp \o s_week, s_stats \o Sp \o s_all,
                s_report \o Sp \o Mention(AlEmail) \o Sp \o s_all,
                s_report \o Sp \o Mention(BoEmail) \o Sp \o s_day,
                s_report \o Sp \o Mention(AlEmail) \o Sp \o <<"2">> \o Sp \o <<"w","e","e","k","s">>,
                s_report \o Sp \o Mention(BoEmail) \o Sp \o <<"1">> \o Sp \o <<"y","e","a","r","s">> }}
FaultyReceived == {Parse(m) : m \in FaultyMessages}

InitFaulty ==
    /\ now \in ClockStart..ClockEnd
    /\ store \in {SubSeq(SampleLog, i, j) : i, j \in 1..Len(SampleLog)}
    /\ reply = NoReply
    /\ queries = <<>>
    /\ since = None

NextFaulty ==
    \E m \in FaultyReceived :
        \/ Stats(m)
        \/ ReportPeriod(m)
        \/ ReportRelative(m)
        \/ StatsStoreError(m)
        \/ ReportPeriodStoreError(m)
        \/ ReportRelativeStoreError(m)

SpecFaulty == InitFaulty /\ [][NextFaulty]_vars

\* C18: if a store query fails while a team-stats or detail report is being
\* computed, also after some users' totals were computed, the requester
\* receives a failure message, no reply with totals is sent, and the handler
\* does not end with an unhandled error.
C18_StoreErrorReported ==
    [][\A m \in FaultyReceived :
          (StatsStoreError(m) \/ ReportPeriodStoreError(m) \/ ReportRelativeStoreError(m))
              => reply'.kind \notin {"exception", "none", "stats", "report"}]_vars

-----------------------------------------------------------------------------
\* the elapsed units of a period between the start snc of its window and t
ElapsedUnits(title, t, snc) ==
    IF title = Title(s_week) THEN ((t - snc) \div 24) \div 7
    ELSE IF title = Title(s_month)
    THEN (ToDateTime(t).year - ToDateTime(snc).year) * 12
            + (ToDateTime(t).month - ToDateTime(snc).month)
    ELSE ToDateTime(t).year - ToDateTime(snc).year

\* C19: team stats for week, month or year are followed by the elapsed-unit
\* annotation line (week: floor(days since window start / 7); month: the
\* difference in months; year: the difference in years); none is emitted
\* for day or all.
C19_ElapsedAnnotation ==
    reply.kind = "stats"
        => IF reply.title \in {Title(s_week), Title(s_month), Title(s_year)}
           THEN /\ "annotation" \in DOMAIN reply
                /\ reply.annotation = ElapsedUnits(reply.title, now, Val(since))
           ELSE "annotation" \notin DOMAIN reply

-----------------------------------------------------------------------------
\* C20: in an admin's report, whenever the last two tokens are an integer N
\* and a unit token beginning with week, month or year, singular or plural,
\* the report uses the relative window now - N units and the detailed
\* narrative format; N is never ignored in favour of the calendar-aligned
\* period of the same name.
C20_CountNeverIgnored ==
    [][\A r \in RelativeRequests :
          (r.count.isInt /\ r.unit.days > 0 /\ handle_message(r.m))
              => /\ reply'.kind = "report"
                 /\ since' = Some(now - 24 * r.unit.days * r.count.n)]_vars

=============================================================================
